---- MODULE Spec2Model ----
(***************************************************************************)
(* A model of spotify-playlist-archive (src/script.py).                    *)
(*                                                                         *)
(* Text is modelled at the level of characters: a string is a sequence of  *)
(* one-character strings, so that formatting a ledger row and parsing it   *)
(* back (slice, split, regular expression) are computed as Python computes *)
(* them.  The only multi-character elements are literal pieces of the      *)
(* header block (URL.BASE and the like), which no operation of the program *)
(* looks inside.  An absent URL (None) is the empty string: Formatter._link*)
(* tests "not url", which treats both alike.                               *)
(***************************************************************************)
EXTENDS Integers, Sequences, FiniteSets, TLC

(***************************************************************************)
(* Bounds of the model.                                                    *)
(***************************************************************************)
\* number of successive runs of the cumulative formatter on one ledger
MaxRuns == 3
\* number of tracks of a fetched playlist
MaxTracks == 2
\* number of data lines of an arbitrary previous ledger text
MaxPrevLines == 2
\* number of playlists tracked in playlists/plain
MaxPlaylists == 2
\* number of different tracks pages the server can name in "next"
MaxPages == 2
\* number of tracks pages requested by one call of get_playlist
MaxRequests == 3
\* number of tracks of a playlist rendered by Formatter.plain
MaxPlainTracks == 3

(***************************************************************************)
(* Characters and strings                                                  *)
(***************************************************************************)
\* The characters of the model in code-point order (str comparison).
AsciiOrder ==
    << "\n", " ", "#", "(", ")", ",", "-", "0", "1", "2", "3", "4", "5", "6",
       "7", "8", "9", ":", ">", "A", "B", "C", "[", "]", "a", "b", "c", "d",
       "n", "p", "q", "u", "x", "y", "|" >>

Ord(c) == CHOOSE i \in 1..Len(AsciiOrder) : AsciiOrder[i] = c

\* str.lower() on one character
LowerChar(c) ==
    CASE c = "A" -> "a"
      [] c = "B" -> "b"
      [] c = "C" -> "c"
      [] OTHER -> c

\* str.lower()
Lower(s) == [i \in 1..Len(s) |-> LowerChar(s[i])]

\* s < t for Python strings (lexicographic by code point)
RECURSIVE StrLess(_, _)
StrLess(s, t) ==
    IF t = <<>> THEN FALSE
    ELSE IF s = <<>> THEN TRUE
    ELSE IF s[1] = t[1] THEN StrLess(Tail(s), Tail(t))
    ELSE Ord(s[1]) < Ord(t[1])

\* sep.join(parts)
RECURSIVE Join(_, _)
Join(parts, sep) ==
    IF parts = <<>> THEN <<>>
    ELSE IF Len(parts) = 1 THEN parts[1]
    ELSE parts[1] \o sep \o Join(Tail(parts), sep)

\* does sep occur in s at position i (1-based)?
OccursAt(s, sep, i) ==
    /\ i + Len(sep) - 1 <= Len(s)
    /\ \A j \in 1..Len(sep) : s[i + j - 1] = sep[j]

\* str.find: the first position >= from at which sep occurs in s, or 0
RECURSIVE Find(_, _, _)
Find(s, sep, from) ==
    IF from + Len(sep) - 1 > Len(s) THEN 0
    ELSE IF OccursAt(s, sep, from) THEN from
    ELSE Find(s, sep, from + 1)

\* s.split(sep), sep non-empty
RECURSIVE Split(_, _)
Split(s, sep) ==
    LET i == Find(s, sep, 1)
    IN  IF i = 0 THEN <<s>>
        ELSE <<SubSeq(s, 1, i - 1)>>
             \o Split(SubSeq(s, i + Len(sep), Len(s)), sep)

\* s.splitlines(): no trailing empty line, "" gives []
RECURSIVE SplitLines(_)
SplitLines(s) ==
    IF s = <<>> THEN <<>>
    ELSE LET i == Find(s, <<"\n">>, 1)
         IN  IF i = 0 THEN <<s>>
             ELSE <<SubSeq(s, 1, i - 1)>> \o SplitLines(SubSeq(s, i + 1, Len(s)))

\* s[2:-2]
Slice2(s) == SubSeq(s, 3, Len(s) - 2)

\* list.index(x): the first position of x in list, or 0 (ValueError)
Index(list, x) ==
    LET hits == {i \in 1..Len(list) : list[i] = x}
    IN  IF hits = {} THEN 0 ELSE CHOOSE i \in hits : \A j \in hits : i <= j

\* str(n) for a natural number
RECURSIVE NatStr(_)
NatStr(n) ==
    LET d == <<"0", "1", "2", "3", "4", "5", "6", "7", "8", "9">>[(n % 10) + 1]
    IN  IF n < 10 THEN <<d>> ELSE NatStr(n \div 10) \o <<d>>

\* "%02d" % n
TwoDigits(n) == IF n < 10 THEN <<"0">> \o NatStr(n) ELSE NatStr(n)

(***************************************************************************)
(* Formatter.LINK_REGEX = r"\[(.+?)\]\(.+?\)"                              *)
(***************************************************************************)
\* A match starting at position i: "[", a lazy group of at least one
\* character, "](", lazily at least one character, ")".  The lazy group ends
\* at the first "](" that is followed, after at least one character, by a
\* ")".  Gives [found, group, end] (end: position of the closing ")").
\* It is applied to single lines only, where "." matches every character.
LinkMatchAt(s, i) ==
    LET ps == {p \in (i + 2)..Len(s) :
                  /\ OccursAt(s, <<"]", "(">>, p)
                  /\ \E q \in (p + 3)..Len(s) : s[q] = ")"}
        p  == CHOOSE p \in ps : \A r \in ps : p <= r
        qs == {q \in (p + 3)..Len(s) : s[q] = ")"}
        q  == CHOOSE q \in qs : \A r \in qs : q <= r
    IN  IF i <= Len(s) /\ s[i] = "[" /\ ps # {}
        THEN [found |-> TRUE, group |-> SubSeq(s, i + 1, p - 1), end |-> q]
        ELSE [found |-> FALSE, group |-> <<>>, end |-> 0]

\* re.findall(LINK_REGEX, s): the groups of the non-overlapping matches
RECURSIVE FindAllFrom(_, _)
FindAllFrom(s, i) ==
    IF i > Len(s) THEN <<>>
    ELSE LET m == LinkMatchAt(s, i)
         IN  IF m.found THEN <<m.group>> \o FindAllFrom(s, m.end + 1)
             ELSE FindAllFrom(s, i + 1)

FindAll(s) == FindAllFrom(s, 1)

(***************************************************************************)
(* Formatter                                                               *)
(***************************************************************************)
TITLE == <<"Title">>
ARTISTS == <<"Artist(s)">>
ALBUM == <<"Album">>
LENGTH == <<"Length">>
ADDED == <<"Added">>
REMOVED == <<"Removed">>

ARTIST_SEPARATOR == <<",", " ">>

\* URL.BASE
URL_BASE ==
    <<"https://github.com/mackorone/spotify-playlist-archive/blob/master/playlists/">>

\* URL.plain
URLPlain(playlist_id) == URL_BASE \o <<"plain/">> \o playlist_id

\* URL.plain_history: plain.replace("github.com", "github.githistory.xyz")
URLPlainHistory(playlist_id) ==
    <<"https://github.githistory.xyz/mackorone/spotify-playlist-archive/blob/master/playlists/">>
    \o <<"plain/">> \o playlist_id

\* playlist_name.replace(" ", "%20")
Sanitize(name) == [i \in 1..Len(name) |-> IF name[i] = " " THEN "%20" ELSE name[i]]

\* URL.pretty
URLPretty(playlist_name) ==
    URL_BASE \o <<"pretty/">> \o Sanitize(playlist_name) \o <<".md">>

\* URL.cumulative
URLCumulative(playlist_name) ==
    URL_BASE \o <<"cumulative/">> \o Sanitize(playlist_name) \o <<".md">>

\* Formatter._link
Link(text, url) ==
    IF url = <<>> THEN text
    ELSE <<"[">> \o text \o <<"]", "(">> \o url \o <<")">>

\* Formatter._unlink: re.match(LINK_REGEX, link).group(1); re.match gives None
\* when the text does not start with a link, and None.group raises
\* AttributeError (ok = FALSE).
Unlink(link) ==
    LET m == LinkMatchAt(link, 1)
    IN  [ok |-> m.found, val |-> m.group]

\* str(datetime.timedelta(seconds=seconds))
TimedeltaStr(seconds) ==
    LET days == seconds \div 86400
        rest == seconds % 86400
        hms  == NatStr(rest \div 3600) \o <<":">> \o TwoDigits((rest % 3600) \div 60)
                \o <<":">> \o TwoDigits(rest % 60)
    IN  IF days = 0 THEN hms
        ELSE NatStr(days) \o <<" ", "d", "a", "y">>
             \o (IF days = 1 THEN <<>> ELSE <<"s">>) \o <<",", " ">> \o hms

\* the scan stopping at the first character that is not "0"
FormatDuration_ZerosOnly(duration_ms) ==
    LET timedelta == TimedeltaStr(duration_ms \div 1000)
        stops == {i \in 1..Len(timedelta) : timedelta[i] # "0"}
        index == CHOOSE i \in stops : \A j \in stops : i <= j
    IN  [ok |-> TRUE, val |-> SubSeq(timedelta, index, Len(timedelta))]

\* Formatter._format_duration: the scan over leading ":" and "0" has no bound
\* check, so a text of only those characters raises IndexError (ok = FALSE).
FormatDuration(duration_ms) ==
    LET timedelta == TimedeltaStr(duration_ms \div 1000)
        stops == {i \in 1..Len(timedelta) : timedelta[i] \notin {":", "0"}}
        index == CHOOSE i \in stops : \A j \in stops : i <= j
    IN  IF stops = {} THEN [ok |-> FALSE, val |-> <<>>]
        ELSE [ok |-> TRUE, val |-> SubSeq(timedelta, index, Len(timedelta))]

\* Formatter._plain_line_from_names
PlainLineFromNames(track_name, artist_names, album_name) ==
    track_name \o <<" ", "-", "-", " ">> \o Join(artist_names, ARTIST_SEPARATOR)
    \o <<" ", "-", "-", " ">> \o album_name

\* Formatter._plain_line_from_track
PlainLineFromTrack(track) ==
    PlainLineFromNames(
        track.name,
        [i \in 1..Len(track.artists) |-> track.artists[i].name],
        track.album.name)

\* the ContentKey of a track, as computed in Formatter.cumulative
KeyOfTrack(track) == Lower(PlainLineFromTrack(track))

\* sorted(lines, key=lambda line: line.lower()) by insertion: a line goes
\* before the first line of a greater key, so lines of equal keys keep the
\* order in which they came (sorted is stable).
InsertByLower(sorted_lines, line) ==
    LET greater == {j \in 1..Len(sorted_lines) :
                       StrLess(Lower(line), Lower(sorted_lines[j]))}
        at == IF greater = {} THEN Len(sorted_lines) + 1
              ELSE CHOOSE j \in greater : \A k \in greater : j <= k
    IN  SubSeq(sorted_lines, 1, at - 1) \o <<line>>
        \o SubSeq(sorted_lines, at, Len(sorted_lines))

RECURSIVE SortedByLower(_, _)
SortedByLower(lines, n) ==
    IF n = 0 THEN <<>>
    ELSE InsertByLower(SortedByLower(lines, n - 1), lines[n])

\* Formatter.plain
Plain(playlist_id, playlist) ==
    LET lines == [i \in 1..Len(playlist.tracks) |-> PlainLineFromTrack(playlist.tracks[i])]
        sorted_lines == SortedByLower(lines, Len(lines))
        header == <<playlist.name, playlist.description, <<>>>>
    IN  Join(header \o sorted_lines, <<"\n">>)

\* line_template.format(*cells), line_template = " {} ".join(["|"] * (n + 1))
LineTemplate(cells) ==
    <<"|">> \o Join([i \in 1..Len(cells) |-> <<" ">> \o cells[i] \o <<" ">>], <<"|">>)
    \o <<"|">>

\* divider_line = "---".join(["|"] * (n + 1))
DividerLine(n) ==
    Join([i \in 1..(n + 1) |-> <<"|">>], <<"-", "-", "-">>)

\* Formatter._markdown_header_lines, without an export playlist
MarkdownHeaderLines(playlist_name, playlist_url, playlist_id, playlist_description, is_cumulative) ==
    LET pretty == IF is_cumulative
                  THEN Link(<<"pretty">>, URLPretty(playlist_name))
                  ELSE <<"pretty">>
        cumulative == IF is_cumulative
                      THEN <<"cumulative">>
                      ELSE Link(<<"cumulative">>, URLCumulative(playlist_name))
    IN  << pretty \o <<" ", "-", " ">> \o cumulative \o <<" ", "-", " ">>
             \o Link(<<"plain">>, URLPlain(playlist_id)) \o <<" ", "(">>
             \o Link(<<"githistory">>, URLPlainHistory(playlist_id)) \o <<")">>,
           <<>>,
           <<"#", "#", "#", " ">> \o Link(playlist_name, playlist_url),
           <<>>,
           <<">", " ">> \o playlist_description,
           <<>> >>

\* the rows dict with rows[key] = row
Put(rows, key, row) ==
    [k \in (DOMAIN rows) \cup {key} |-> IF k = key THEN row ELSE rows[k]]

\* the empty rows dict
NoRows == [k \in {} |-> <<>>]

\* The loop of Formatter._rows_from_prev_content over the lines after the
\* divider, from line i on.  Gives [ok, rows]; ok = FALSE when _unlink raises.
RECURSIVE ParseLines(_, _, _, _)
ParseLines(today, prev_lines, i, rows) ==
    IF i > Len(prev_lines) THEN [ok |-> TRUE, rows |-> rows]
    ELSE
      LET fields == Split(Slice2(prev_lines[i]), <<" ", "|", " ">>)
      IN  IF Len(fields) # 6
          THEN ParseLines(today, prev_lines, i + 1, rows)
          ELSE
            LET title == Unlink(fields[1])
                album == Unlink(fields[3])
                key == Lower(PlainLineFromNames(title.val, FindAll(fields[2]),
                                                album.val))
                row == [title |-> fields[1], artists |-> fields[2],
                        album |-> fields[3], length |-> fields[4],
                        added |-> fields[5],
                        removed |-> IF fields[6] = <<>> THEN today ELSE fields[6]]
            IN  IF ~title.ok \/ ~album.ok
                THEN [ok |-> FALSE, rows |-> rows]
                ELSE ParseLines(today, prev_lines, i + 1, Put(rows, key, row))

\* _rows_from_prev_content without the early return for a missing divider:
\* every line of the previous content is read as a row
RowsFromPrevContent_AnyLine(today, prev_content, divider_line) ==
    IF prev_content.none \/ prev_content.text = <<>>
    THEN [ok |-> TRUE, rows |-> NoRows]
    ELSE
      LET prev_lines == SplitLines(prev_content.text)
          index == Index(prev_lines, divider_line)
      IN  ParseLines(today, prev_lines, index + 1, NoRows)

\* Formatter._rows_from_prev_content.  prev_content is [none, text].
RowsFromPrevContent(today, prev_content, divider_line) ==
    IF prev_content.none \/ prev_content.text = <<>>
    THEN [ok |-> TRUE, rows |-> NoRows]
    ELSE
      LET prev_lines == SplitLines(prev_content.text)
          index == Index(prev_lines, divider_line)
      IN  IF index = 0 THEN [ok |-> TRUE, rows |-> NoRows]
          ELSE ParseLines(today, prev_lines, index + 1, NoRows)

\* The loop of Formatter.cumulative over playlist.tracks, from track i on.
\* Gives [ok, rows]; ok = FALSE when _format_duration raises.
RECURSIVE MergeTracks(_, _, _, _)
MergeTracks(today, tracks, i, rows) ==
    IF i > Len(tracks) THEN [ok |-> TRUE, rows |-> rows]
    ELSE
      LET track == tracks[i]
          key == KeyOfTrack(track)
          old == IF key \in DOMAIN rows THEN rows[key]
                 ELSE [title |-> <<>>, artists |-> <<>>, album |-> <<>>,
                       length |-> <<>>, added |-> <<>>, removed |-> <<>>]
          length == FormatDuration(track.duration_ms)
          row == [title |-> Link(track.name, track.url),
                  artists |-> Join([j \in 1..Len(track.artists) |->
                                      Link(track.artists[j].name, track.artists[j].url)],
                                   ARTIST_SEPARATOR),
                  album |-> Link(track.album.name, track.album.url),
                  length |-> length.val,
                  added |-> IF old.added = <<>> THEN today ELSE old.added,
                  removed |-> <<>>]
      IN  IF ~length.ok THEN [ok |-> FALSE, rows |-> rows]
          ELSE MergeTracks(today, tracks, i + 1, Put(rows, key, row))

\* sorted(keys)
RECURSIVE SortKeys(_)
SortKeys(keys) ==
    IF keys = {} THEN <<>>
    ELSE LET least == CHOOSE k \in keys : \A l \in keys \ {k} : StrLess(k, l)
         IN  <<least>> \o SortKeys(keys \ {least})

\* the cells of a row in column order
RowCells(row) ==
    <<row.title, row.artists, row.album, row.length, row.added, row.removed>>

\* Formatter.cumulative, without an export playlist.  Gives [raised, rows,
\* text]: raised = TRUE when the call raises, else rows is the dict that is
\* rendered and text the returned content.
Cumulative(today, prev_content, playlist_id, playlist) ==
    LET columns == <<TITLE, ARTISTS, ALBUM, LENGTH, ADDED, REMOVED>>
        divider_line == DividerLine(Len(columns))
        header == MarkdownHeaderLines(playlist.name, playlist.url, playlist_id,
                                      playlist.description, TRUE)
                  \o <<LineTemplate(columns), divider_line>>
        parsed == RowsFromPrevContent(today, prev_content, divider_line)
        merged == MergeTracks(today, playlist.tracks, 1, parsed.rows)
        keys == SortKeys(DOMAIN merged.rows)
        lines == [i \in 1..Len(keys) |-> LineTemplate(RowCells(merged.rows[keys[i]]))]
    IN  IF ~parsed.ok \/ ~merged.ok
        THEN [raised |-> TRUE, rows |-> NoRows, text |-> <<>>]
        ELSE [raised |-> FALSE, rows |-> merged.rows,
              text |-> Join(header \o lines, <<"\n">>)]

(***************************************************************************)
(* The playlists a fetch can return                                        *)
(***************************************************************************)
\* A Spotify URL; a missing "spotify" entry of external_urls gives None,
\* modelled as the empty string.
SomeUrl == <<"u">>
NoUrl == <<>>

ArtistP == [url |-> SomeUrl, name |-> <<"p">>]
ArtistQ == [url |-> SomeUrl, name |-> <<"q">>]
\* an artist without a URL (a local file)
ArtistQLocal == [url |-> NoUrl, name |-> <<"q">>]
AlbumX == [url |-> SomeUrl, name |-> <<"x">>]
AlbumXLocal == [url |-> NoUrl, name |-> <<"x">>]

\* every URL present, two artists
TrackA == [id |-> 1, url |-> SomeUrl, duration_ms |-> 61000, name |-> <<"a">>,
           album |-> AlbumX, artists |-> <<ArtistP, ArtistQ>>]
\* the same ContentKey as TrackA, in another case and of another length
TrackUpperA == [id |-> 2, url |-> SomeUrl, duration_ms |-> 3661000, name |-> <<"A">>,
                album |-> AlbumX, artists |-> <<ArtistP, ArtistQ>>]
\* no track URL and no album URL
TrackB == [id |-> 3, url |-> NoUrl, duration_ms |-> 59000, name |-> <<"b">>,
           album |-> AlbumXLocal, artists |-> <<ArtistP>>]
\* no artist URL
TrackC == [id |-> 4, url |-> SomeUrl, duration_ms |-> 59000, name |-> <<"c">>,
           album |-> AlbumX, artists |-> <<ArtistQLocal>>]

Tracks == {TrackA, TrackUpperA, TrackB, TrackC}

\* the track lists of a playlist: up to MaxTracks different tracks, in any order
TrackLists ==
    {l \in UNION {[1..n -> Tracks] : n \in 0..MaxTracks} :
        \A i, j \in 1..Len(l) : i # j => l[i] # l[j]}

PlaylistId == <<"y">>

\* a Playlist as Spotify.get_playlist returns it
Playlist(tracks) ==
    [id |-> PlaylistId, url |-> SomeUrl, name |-> <<"n", " ", "n">>,
     description |-> <<"d">>, tracks |-> tracks]

\* now.strftime("%Y-%m-%d") on the d-th day of the model
Today(d) == <<"2", "0", "2", "0", "-", "0", "1", "-", "0">> \o NatStr(d)

(***************************************************************************)
(* State                                                                   *)
(***************************************************************************)
VARIABLES
    \* the file at cumulative_path: [none, text], none = it cannot be read
    cumulative_file,
    \* the day of "now"
    clock,
    \* the calls of Formatter.cumulative so far, each
    \* [today, prev_content, tracks, raised, rows, text]
    calls

VARIABLES
    \* update_files: the playlist ids the loop has still to process
    todo,
    \* update_files: the aliases dict (playlist id -> name)
    aliases,
    \* where the run is: "loop" (between two playlists), "tracks" (inside the
    \* loop of _get_tracks), "returned" (get_playlist has returned),
    \* "aborted" (an exception left update_files), "inconsistent" (the sanity
    \* check raised), "finished"
    pc,
    \* get_playlist: the name of the playlist being fetched
    name,
    \* _get_tracks: the page to request next, 0 for None
    tracks_href,
    \* _get_tracks: the list of Track built so far
    tracks,
    \* the requests of the current call of get_playlist, each
    \* [href, response]
    log,
    \* the exception the last call of get_playlist raised, "none" if none
    raised,
    \* update_files: what became of the playlists processed so far, each
    \* [id, name, kept]
    outcomes,
    \* the directory playlists/plain: playlist id -> the text of its file
    plain_dir,
    \* os.listdir of playlists/pretty and of playlists/cumulative: file names
    pretty_dir,
    cumulative_dir

ledgerVars == <<cumulative_file, clock, calls>>
VARIABLES
    \* Formatter.plain: the tracks of the playlist in the order Spotify gives
    \* them now, and the texts Formatter.plain has returned for the playlist
    playlist_tracks,
    plain_texts,
    \* Formatter._format_duration: its argument and its result
    \* [done, ok, val], done = FALSE before the call
    duration_ms,
    length,
    \* push_updates: the step to run next ("returned", "raised" at the end)
    \* and the commands run so far, each [step, returncode]
    push_pc,
    git_log

plainVars == <<playlist_tracks, plain_texts>>
durationVars == <<duration_ms, length>>
pushVars == <<push_pc, git_log>>
dirVars == <<plain_dir, pretty_dir, cumulative_dir>>
fetchVars == <<todo, aliases, pc, name, tracks_href, tracks, log, raised, outcomes,
               plain_dir, pretty_dir, cumulative_dir>>
vars == <<cumulative_file, clock, calls,
          todo, aliases, pc, name, tracks_href, tracks, log, raised, outcomes,
          plain_dir, pretty_dir, cumulative_dir,
          playlist_tracks, plain_texts, duration_ms, length, push_pc, git_log>>

\* Formatter.plain, _format_duration and push_updates are not running
NoPlain == playlist_tracks = <<>> /\ plain_texts = {}
NotCalled == [done |-> FALSE, ok |-> FALSE, val |-> <<>>]
NoDuration == duration_ms = 0 /\ length = NotCalled
NoPush == push_pc = "returned" /\ git_log = <<>>

NoContent == [none |-> TRUE, text |-> <<>>]
Content(text) == [none |-> FALSE, text |-> text]

\* update_files, the cumulative branch of the loop over the three views: read
\* the previous content, format, and write the file when the content changed.
\* An exception of the formatter propagates: nothing is written.
UpdateCumulative(track_list) ==
    LET prev_content == cumulative_file
        out == Cumulative(Today(clock), prev_content, PlaylistId, Playlist(track_list))
    IN  /\ calls' = Append(calls, [today |-> Today(clock), prev_content |-> prev_content,
                                   tracks |-> track_list, raised |-> out.raised,
                                   rows |-> out.rows, text |-> out.text])
        /\ cumulative_file' = IF out.raised THEN cumulative_file ELSE Content(out.text)
        /\ UNCHANGED <<clock, fetchVars, plainVars, durationVars, pushVars>>

\* The playlist on the days of the ledger: the rows are keyed and sorted, so
\* the order of the tracks only matters between tracks of one key; the lists
\* of the ledger hold tracks of different keys, in the order of their ids.
DayLists ==
    {l \in TrackLists :
        /\ \A i \in 1..Len(l) : l[i] # TrackUpperA
        /\ \A i, j \in 1..Len(l) : i < j => l[i].id < l[j].id}

\* a run of the script on the current day
Run ==
    /\ Len(calls) < MaxRuns
    /\ \E track_list \in DayLists : UpdateCumulative(track_list)

\* the next run happens on a later day
Midnight ==
    /\ calls # <<>>
    /\ clock <= Len(calls)
    /\ Len(calls) < MaxRuns
    /\ clock' = clock + 1
    /\ UNCHANGED <<cumulative_file, calls, fetchVars, plainVars, durationVars, pushVars>>

\* no fetch is going on
NoFetch ==
    /\ todo = <<>>
    /\ aliases = [i \in {} |-> <<>>]
    /\ pc = "finished"
    /\ name = <<>>
    /\ tracks_href = 0
    /\ tracks = <<>>
    /\ log = <<>>
    /\ raised = "none"
    /\ outcomes = <<>>
    /\ plain_dir = [i \in {} |-> <<>>]
    /\ pretty_dir = {}
    /\ cumulative_dir = {}

Init ==
    /\ cumulative_file = NoContent
    /\ clock = 1
    /\ calls = <<>>
    /\ NoFetch
    /\ NoPlain
    /\ NoDuration
    /\ NoPush

Next == Run \/ Midnight

Spec == Init /\ [][Next]_vars

(***************************************************************************)
(* One run on a cumulative file of arbitrary content                       *)
(***************************************************************************)
CumulativeColumns == <<TITLE, ARTISTS, ALBUM, LENGTH, ADDED, REMOVED>>
PrettyColumns == <<<<"No.">>, TITLE, ARTISTS, ALBUM, LENGTH>>

\* the head of a cumulative file as Formatter.cumulative writes it
CumulativeHead ==
    MarkdownHeaderLines(Playlist(<<>>).name, Playlist(<<>>).url, PlaylistId,
                        Playlist(<<>>).description, TRUE)
    \o <<LineTemplate(CumulativeColumns), DividerLine(6)>>

\* the head of a pretty file as Formatter.pretty writes it: its divider has
\* five columns, so it holds no line equal to the cumulative divider
PrettyHead ==
    MarkdownHeaderLines(Playlist(<<>>).name, Playlist(<<>>).url, PlaylistId,
                        Playlist(<<>>).description, FALSE)
    \o <<LineTemplate(PrettyColumns), DividerLine(5)>>

\* lines a previous file may hold below its head
PrevLineChoices ==
    { \* the row of TrackA, active since the first day
      LineTemplate(<<Link(<<"a">>, SomeUrl),
                     Link(<<"p">>, SomeUrl) \o ARTIST_SEPARATOR \o Link(<<"q">>, SomeUrl),
                     Link(<<"x">>, SomeUrl), <<"1", ":", "0", "1">>, Today(1), <<>>>>),
      \* a row of a track that is in no playlist, removed on the first day
      LineTemplate(<<Link(<<"d">>, SomeUrl), Link(<<"p">>, SomeUrl),
                     Link(<<"x">>, SomeUrl), <<"5", "9">>, Today(1), Today(1)>>),
      \* a row of the pretty view: five fields
      LineTemplate(<<<<"1">>, Link(<<"a">>, SomeUrl), Link(<<"p">>, SomeUrl),
                     Link(<<"x">>, SomeUrl), <<"5", "9">>>>),
      \* a title holding the column separator: seven fields
      LineTemplate(<<Link(<<"a", " ", "|", " ", "b">>, SomeUrl), Link(<<"p">>, SomeUrl),
                     Link(<<"x">>, SomeUrl), <<"5", "9">>, Today(1), <<>>>>),
      \* six fields, title and album not links (the row of TrackB)
      LineTemplate(<<<<"b">>, Link(<<"p">>, SomeUrl), <<"x">>, <<"5", "9">>,
                     Today(1), <<>>>>) }

PrevLineLists == UNION {[1..n -> PrevLineChoices] : n \in 0..MaxPrevLines}

PrevContents ==
    {NoContent, Content(<<>>)}
    \cup {Content(Join(head \o lines, <<"\n">>)) :
             head \in {CumulativeHead, PrettyHead}, lines \in PrevLineLists}

\* the single run
RunOnce ==
    /\ calls = <<>>
    /\ \E track_list \in TrackLists : UpdateCumulative(track_list)

InitPrev ==
    /\ cumulative_file \in PrevContents
    /\ clock = 2
    /\ calls = <<>>
    /\ NoFetch
    /\ NoPlain
    /\ NoDuration
    /\ NoPush

NextPrev == RunOnce

SpecPrev == InitPrev /\ [][NextPrev]_vars

(***************************************************************************)
(* Spotify: the fetch client, inside the loop of update_files              *)
(***************************************************************************)
\* The JSON of a track as the tracks endpoint gives it.  external_urls is
\* [has, spotify]: has = FALSE when it is null or has no "spotify" entry.
Urls(url) == [has |-> url # NoUrl, spotify |-> url]

JsonOfTrack(track) ==
    [id |-> track.id, external_urls |-> Urls(track.url),
     duration_ms |-> track.duration_ms, name |-> track.name,
     album |-> [external_urls |-> Urls(track.album.url), name |-> track.album.name],
     artists |-> [i \in 1..Len(track.artists) |->
                    [external_urls |-> Urls(track.artists[i].url),
                     name |-> track.artists[i].name]]]

\* an item of a tracks page: item["track"] is null (a deleted track) or a track
NullItem == [null |-> TRUE, track |-> JsonOfTrack(TrackA)]
ItemA == [null |-> FALSE, track |-> JsonOfTrack(TrackA)]
ItemB == [null |-> FALSE, track |-> JsonOfTrack(TrackB)]

\* the "items" a tracks page can hold
PageItemChoices == {<<>>, <<NullItem>>, <<ItemA, NullItem, ItemB>>, <<ItemB, ItemA>>}

\* the names the playlist endpoint can give
ResponseNames == {<<"n">>, <<"m", "/", "m">>}

\* the statuses of an error envelope {"error": {"status": ...}}
ErrorStatuses == {401, 403, 404, 429, 500}

\* the whole seconds of a Retry-After header
RetryHints == {5, 30}

\* A response of the server: error is the status of the error envelope of the
\* body (0: the body has no "error"), retry_after the Retry-After header (0:
\* none), and name, items, next (0: null) the fields of the body.
Response(error, retry_after, response_name, items, next) ==
    [error |-> error, retry_after |-> retry_after, name |-> response_name,
     items |-> items, next |-> next]

ErrorResponses ==
    {Response(status, 0, <<>>, <<>>, 0) : status \in ErrorStatuses \ {429}}
    \cup {Response(429, hint, <<>>, <<>>, 0) : hint \in RetryHints}

PlaylistResponses ==
    {Response(0, 0, n, <<>>, 0) : n \in ResponseNames} \cup ErrorResponses

TracksResponses ==
    {Response(0, 0, <<>>, items, next) : items \in PageItemChoices, next \in 0..MaxPages}
    \cup ErrorResponses

\* Spotify._make_request: one GET, and the JSON of the body whatever the
\* status; the headers are not looked at, nothing is retried.
MakeRequest(response) ==
    [error |-> response.error, name |-> response.name,
     items |-> response.items, next |-> response.next]

\* Spotify._get_url
GetUrl(external_urls) ==
    IF external_urls.has THEN external_urls.spotify ELSE NoUrl

\* the loop of _get_tracks without the skip of null tracks
RECURSIVE TracksOfItems_KeepNull(_, _)
TracksOfItems_KeepNull(items, i) ==
    IF i > Len(items) THEN <<>>
    ELSE LET track == items[i].track
         IN  << [id |-> track.id,
                 url |-> GetUrl(track.external_urls),
                 duration_ms |-> track.duration_ms,
                 name |-> track.name,
                 album |-> [url |-> GetUrl(track.album.external_urls),
                            name |-> track.album.name],
                 artists |-> [j \in 1..Len(track.artists) |->
                                [url |-> GetUrl(track.artists[j].external_urls),
                                 name |-> track.artists[j].name]]] >>
             \o TracksOfItems_KeepNull(items, i + 1)

\* the body of the loop of _get_tracks over response["items"]: the Tracks of
\* the items from item i on, null tracks skipped
RECURSIVE TracksOfItems(_, _)
TracksOfItems(items, i) ==
    IF i > Len(items) THEN <<>>
    ELSE IF items[i].null THEN TracksOfItems(items, i + 1)
    ELSE LET track == items[i].track
         IN  << [id |-> track.id,
                 url |-> GetUrl(track.external_urls),
                 duration_ms |-> track.duration_ms,
                 name |-> track.name,
                 album |-> [url |-> GetUrl(track.album.external_urls),
                            name |-> track.album.name],
                 artists |-> [j \in 1..Len(track.artists) |->
                                [url |-> GetUrl(track.artists[j].external_urls),
                                 name |-> track.artists[j].name]]] >>
             \o TracksOfItems(items, i + 1)

\* the exception get_playlist raises for the status of an error envelope
RaisedByGetPlaylist(status) ==
    CASE status = 401 -> "InvalidAccessTokenError"
      [] status = 403 -> "PrivatePlaylistError"
      [] status = 404 -> "InvalidPlaylistError"
      [] OTHER -> "Exception"

\* _get_tracks raising by status as get_playlist does
RaisedByGetTracks_ByStatus(status) == RaisedByGetPlaylist(status)

\* the exception _get_tracks raises for the status of an error envelope
RaisedByGetTracks(status) == "Exception"

\* name.replace("/", "\\")
ReplaceSlash(n) == [i \in 1..Len(n) |-> IF n[i] = "/" THEN "\\" ELSE n[i]]

\* the name get_playlist gives the playlist: its alias if it has one
PlaylistName(playlist_id, response_name) ==
    ReplaceSlash(IF playlist_id \in DOMAIN aliases THEN aliases[playlist_id]
                 ELSE response_name)

NoAliases == [i \in {} |-> <<>>]
AliasChoices == {NoAliases, [i \in {1} |-> <<"z">>]}

\* update_files, the except clauses of the loop: the exceptions of
\* get_playlist after which the plain file is removed and the loop goes on
Caught_Every(exception) == TRUE

Caught(exception) == exception \in {"PrivatePlaylistError", "InvalidPlaylistError"}

\* os.remove(plain_path)
Remove(dir, playlist_id) == [i \in DOMAIN dir \ {playlist_id} |-> dir[i]]

\* open(path, "w").write(content) in playlists/plain
WritePlain(dir, playlist_id, content) ==
    [i \in DOMAIN dir \cup {playlist_id} |-> IF i = playlist_id THEN content ELSE dir[i]]

\* "{}.md".format(playlist.name): the file name of the pretty and of the
\* cumulative view
MdFile(playlist_name) == playlist_name \o <<".", "m", "d">>

\* filename[:-3]
StripSuffix(filename) == SubSeq(filename, 1, Len(filename) - 3)

\* f.readline(): the text up to and with the first line break
ReadLine(text) ==
    LET at == Find(text, <<"\n">>, 1)
    IN  IF at = 0 THEN text ELSE SubSeq(text, 1, at)

\* str.strip(): without the white space at both ends
Strip(s) ==
    LET inked == {i \in 1..Len(s) : s[i] \notin {" ", "\n"}}
        first == CHOOSE i \in inked : \A j \in inked : i <= j
        last == CHOOSE i \in inked : \A j \in inked : j <= i
    IN  IF inked = {} THEN <<>> ELSE SubSeq(s, first, last)

\* the sanity check of update_files: the names on the first lines of the
\* plain files and the names of the pretty files, compared as sets
PlainPlaylists(dir) == {Strip(ReadLine(dir[i])) : i \in DOMAIN dir}
PrettyPlaylists(dir) == {StripSuffix(f) : f \in dir}
MissingFromPlain == PrettyPlaylists(pretty_dir) \ PlainPlaylists(plain_dir)
MissingFromPretty == PlainPlaylists(plain_dir) \ PrettyPlaylists(pretty_dir)

\* the tracks pages requested by the current call
PageRequests == {n \in 1..Len(log) : log[n].kind = "tracks"}

\* One iteration of the loop of update_files up to the first response:
\* get_playlist requests the playlist and either raises or enters
\* _get_tracks.  PrivatePlaylistError and InvalidPlaylistError are caught by
\* update_files, which removes the plain file and goes on with the next
\* playlist; every other exception leaves update_files.
GetPlaylist ==
    /\ pc = "loop"
    /\ todo # <<>>
    /\ \E response \in PlaylistResponses :
        LET playlist_id == Head(todo)
            body == MakeRequest(response)
            exception == RaisedByGetPlaylist(body.error)
        IN  /\ log' = <<[kind |-> "playlist", page |-> 0, response |-> response]>>
            /\ tracks' = <<>>
            /\ IF body.error # 0
               THEN /\ raised' = exception
                    /\ name' = <<>>
                    /\ tracks_href' = 0
                    /\ IF Caught(exception)
                       THEN /\ outcomes' = Append(outcomes, [id |-> playlist_id,
                                                             name |-> <<>>, kept |-> FALSE])
                            /\ plain_dir' = Remove(plain_dir, playlist_id)
                            /\ todo' = Tail(todo)
                            /\ pc' = "loop"
                       ELSE /\ pc' = "aborted"
                            /\ UNCHANGED <<todo, outcomes, plain_dir>>
               ELSE /\ raised' = "none"
                    /\ name' = PlaylistName(playlist_id, body.name)
                    /\ tracks_href' = 1
                    /\ pc' = "tracks"
                    /\ UNCHANGED <<todo, outcomes, plain_dir>>
    /\ UNCHANGED <<aliases, pretty_dir, cumulative_dir, ledgerVars>>
    /\ UNCHANGED <<plainVars, durationVars, pushVars>>

\* One iteration of the loop of _get_tracks: request tracks_href, raise on an
\* error envelope, else append the tracks of the page and follow "next";
\* get_playlist returns when "next" is null.
GetTracksPage ==
    /\ pc = "tracks"
    /\ Cardinality(PageRequests) < MaxRequests
    /\ \E response \in TracksResponses :
        LET body == MakeRequest(response)
        IN  /\ log' = Append(log, [kind |-> "tracks", page |-> tracks_href,
                                   response |-> response])
            /\ IF body.error # 0
               THEN /\ raised' = RaisedByGetTracks(body.error)
                    /\ pc' = "aborted"
                    /\ tracks' = <<>>
                    /\ tracks_href' = 0
               ELSE /\ tracks' = tracks \o TracksOfItems(body.items, 1)
                    /\ tracks_href' = body.next
                    /\ pc' = IF body.next = 0 THEN "returned" ELSE "tracks"
                    /\ UNCHANGED raised
    /\ UNCHANGED <<todo, aliases, name, outcomes, dirVars, ledgerVars>>
    /\ UNCHANGED <<plainVars, durationVars, pushVars>>

\* update_files, the else branch of the loop: the playlist is kept, its
\* three views are written (the plain file under the playlist id, the pretty
\* and the cumulative file under the playlist name) and the loop goes on with
\* the next playlist.
WriteFiles ==
    /\ pc = "returned"
    /\ outcomes' = Append(outcomes, [id |-> Head(todo), name |-> name, kept |-> TRUE])
    /\ plain_dir' = WritePlain(plain_dir, Head(todo),
                               Plain(Head(todo), [name |-> name, description |-> <<"d">>,
                                                  tracks |-> tracks]))
    /\ pretty_dir' = pretty_dir \cup {MdFile(name)}
    /\ cumulative_dir' = cumulative_dir \cup {MdFile(name)}
    /\ todo' = Tail(todo)
    /\ pc' = "loop"
    /\ name' = <<>>
    /\ tracks' = <<>>
    /\ log' = <<>>
    /\ UNCHANGED <<aliases, tracks_href, raised, ledgerVars>>
    /\ UNCHANGED <<plainVars, durationVars, pushVars>>

\* update_files after the loop: the sanity check raises when a name is in
\* one of the two directories only ("inconsistent"), else the README is
\* written and update_files returns ("finished")
Finish ==
    /\ pc = "loop"
    /\ todo = <<>>
    /\ pc' = IF MissingFromPlain # {} \/ MissingFromPretty # {}
             THEN "inconsistent" ELSE "finished"
    /\ UNCHANGED <<todo, aliases, name, tracks_href, tracks, log, raised, outcomes,
                   dirVars, ledgerVars>>
    /\ UNCHANGED <<plainVars, durationVars, pushVars>>

\* a file left in playlists/pretty and playlists/cumulative by an earlier run
\* under a name no playlist has any more
StaleChoices == {{}, {MdFile(<<"o">>)}}

InitFetch ==
    /\ cumulative_file = NoContent
    /\ clock = 1
    /\ calls = <<>>
    /\ todo = [i \in 1..MaxPlaylists |-> i]
    /\ aliases \in AliasChoices
    /\ pc = "loop"
    /\ name = <<>>
    /\ tracks_href = 0
    /\ tracks = <<>>
    /\ log = <<>>
    /\ raised = "none"
    /\ outcomes = <<>>
    /\ plain_dir = [i \in 1..MaxPlaylists |-> <<>>]
    /\ pretty_dir \in StaleChoices
    /\ cumulative_dir = pretty_dir
    /\ NoPlain
    /\ NoDuration
    /\ NoPush

NextFetch == GetPlaylist \/ GetTracksPage \/ WriteFiles \/ Finish

SpecFetch == InitFetch /\ [][NextFetch]_vars

(***************************************************************************)
(* push_updates: the git commands, one subprocess after the other          *)
(***************************************************************************)
\* the return codes of a git command: success, failure, fatal error
ReturnCodes == {0, 1, 128}

\* run(args): the command runs to its end and its result is kept
RunGit(step, returncode) == Append(git_log, [step |-> step, returncode |-> returncode])

\* diff = run(["git", "status", "-s"]): without output push_updates returns;
\* the return code is not looked at
GitStatus ==
    /\ push_pc = "status"
    /\ \E returncode \in ReturnCodes, has_changes \in BOOLEAN :
        /\ git_log' = RunGit("status", returncode)
        /\ push_pc' = IF has_changes THEN "config_name" ELSE "returned"
    /\ UNCHANGED <<ledgerVars, fetchVars, plainVars, durationVars>>

\* config_name = run(config + ["user.name", ...]): its return code is looked
\* at only after config_email has run
GitConfigName ==
    /\ push_pc = "config_name"
    /\ \E returncode \in ReturnCodes : git_log' = RunGit("config_name", returncode)
    /\ push_pc' = "config_email"
    /\ UNCHANGED <<ledgerVars, fetchVars, plainVars, durationVars>>

\* config_email = run(config + ["user.email", ...]), then the checks of
\* config_name.returncode and of config_email.returncode
GitConfigEmail ==
    /\ push_pc = "config_email"
    /\ \E returncode \in ReturnCodes :
        LET config_name == git_log[Len(git_log)]
        IN  /\ git_log' = RunGit("config_email", returncode)
            /\ push_pc' = IF config_name.returncode # 0 \/ returncode # 0
                          THEN "raised" ELSE "add"
    /\ UNCHANGED <<ledgerVars, fetchVars, plainVars, durationVars>>

\* add = run(["git", "add", "-A"]) and the check of add.returncode
GitAdd ==
    /\ push_pc = "add"
    /\ \E returncode \in ReturnCodes :
        /\ git_log' = RunGit("add", returncode)
        /\ push_pc' = IF returncode # 0 THEN "raised" ELSE "commit"
    /\ UNCHANGED <<ledgerVars, fetchVars, plainVars, durationVars>>

\* commit = run(["git", "commit", "-m", message]) and the check of
\* commit.returncode
GitCommit ==
    /\ push_pc = "commit"
    /\ \E returncode \in ReturnCodes :
        /\ git_log' = RunGit("commit", returncode)
        /\ push_pc' = IF returncode # 0 THEN "raised" ELSE "rebase"
    /\ UNCHANGED <<ledgerVars, fetchVars, plainVars, durationVars>>

\* rebase = run(["git", "rebase", "HEAD", "master"]): the check after it reads
\* commit.returncode, which is 0 here
GitRebase ==
    /\ push_pc = "rebase"
    /\ \E returncode \in ReturnCodes :
        LET commit == git_log[Len(git_log)]
        IN  /\ git_log' = RunGit("rebase", returncode)
            /\ push_pc' = IF commit.returncode # 0 THEN "raised" ELSE "remote_rm"
    /\ UNCHANGED <<ledgerVars, fetchVars, plainVars, durationVars>>

\* remote_rm = run(["git", "remote", "rm", "origin"]) and the check of
\* remote_rm.returncode
GitRemoteRm ==
    /\ push_pc = "remote_rm"
    /\ \E returncode \in ReturnCodes :
        /\ git_log' = RunGit("remote_rm", returncode)
        /\ push_pc' = IF returncode # 0 THEN "raised" ELSE "remote_add"
    /\ UNCHANGED <<ledgerVars, fetchVars, plainVars, durationVars>>

\* remote_add = run(["git", "remote", "add", "origin", url]) and the check
\* of remote_add.returncode
GitRemoteAdd ==
    /\ push_pc = "remote_add"
    /\ \E returncode \in ReturnCodes :
        /\ git_log' = RunGit("remote_add", returncode)
        /\ push_pc' = IF returncode # 0 THEN "raised" ELSE "push"
    /\ UNCHANGED <<ledgerVars, fetchVars, plainVars, durationVars>>

\* push = run(["git", "push", "origin", "master"]) and the check of
\* push.returncode; push_updates returns after it
GitPush ==
    /\ push_pc = "push"
    /\ \E returncode \in ReturnCodes :
        /\ git_log' = RunGit("push", returncode)
        /\ push_pc' = IF returncode # 0 THEN "raised" ELSE "returned"
    /\ UNCHANGED <<ledgerVars, fetchVars, plainVars, durationVars>>

InitPush ==
    /\ cumulative_file = NoContent
    /\ clock = 1
    /\ calls = <<>>
    /\ NoFetch
    /\ NoPlain
    /\ NoDuration
    /\ push_pc = "status"
    /\ git_log = <<>>

NextPush ==
    \/ GitStatus
    \/ GitConfigName
    \/ GitConfigEmail
    \/ GitAdd
    \/ GitCommit
    \/ GitRebase
    \/ GitRemoteRm
    \/ GitRemoteAdd
    \/ GitPush

SpecPush == InitPush /\ [][NextPush]_vars

(***************************************************************************)
(* Formatter._format_duration on the duration of a track                   *)
(***************************************************************************)
\* the durations of the tracks, in milliseconds: hours, minutes and seconds
\* of no, one and two digits, with and without a rest of milliseconds, and a
\* whole day
DurationChoices ==
    {((h * 3600 + m * 60 + sec) * 1000) + rest :
        h \in {0, 1, 10, 23}, m \in {0, 1, 10, 59}, sec \in {0, 1, 9, 59},
        rest \in {0, 999}}
    \cup {86400000}

\* a call of Formatter._format_duration
CallFormatDuration ==
    /\ ~length.done
    /\ LET result == FormatDuration(duration_ms)
       IN  length' = [done |-> TRUE, ok |-> result.ok, val |-> result.val]
    /\ UNCHANGED <<duration_ms, ledgerVars, fetchVars, plainVars, pushVars>>

InitDuration ==
    /\ cumulative_file = NoContent
    /\ clock = 1
    /\ calls = <<>>
    /\ NoFetch
    /\ NoPlain
    /\ duration_ms \in DurationChoices
    /\ length = NotCalled
    /\ NoPush

NextDuration == CallFormatDuration

SpecDuration == InitDuration /\ [][NextDuration]_vars

(***************************************************************************)
(* Formatter.plain on a playlist that Spotify reorders                     *)
(***************************************************************************)
\* the track lists Formatter.plain is given
PlainLists ==
    {l \in UNION {[1..n -> Tracks] : n \in 0..MaxPlainTracks} :
        \A i, j \in 1..Len(l) : i # j => l[i] # l[j]}

\* the same tracks in another order
Reorderings(track_list) ==
    {l \in PlainLists :
        /\ Len(l) = Len(track_list)
        /\ {l[i] : i \in 1..Len(l)} = {track_list[i] : i \in 1..Len(track_list)}
        /\ l # track_list}

\* Spotify gives the tracks of the playlist in another order
Reorder ==
    /\ \E l \in Reorderings(playlist_tracks) : playlist_tracks' = l
    /\ UNCHANGED <<plain_texts, ledgerVars, fetchVars, durationVars, pushVars>>

\* a call of Formatter.plain on the playlist as it is now
FormatPlain ==
    /\ plain_texts' = plain_texts \cup {Plain(PlaylistId, Playlist(playlist_tracks))}
    /\ UNCHANGED <<playlist_tracks, ledgerVars, fetchVars, durationVars, pushVars>>

InitPlain ==
    /\ cumulative_file = NoContent
    /\ clock = 1
    /\ calls = <<>>
    /\ NoFetch
    /\ playlist_tracks \in PlainLists
    /\ plain_texts = {}
    /\ NoDuration
    /\ NoPush

NextPlain == Reorder \/ FormatPlain

SpecPlain == InitPlain /\ [][NextPlain]_vars

(***************************************************************************)
(* Reading a ledger                                                        *)
(***************************************************************************)
\* the ContentKeys of the tracks of a playlist
KeysOf(track_list) == {KeyOfTrack(track_list[i]) : i \in 1..Len(track_list)}

\* the text a cell displays: the link text of a cell that is one link, else
\* the cell itself
Displayed(cell) ==
    LET m == LinkMatchAt(cell, 1)
    IN  IF m.found /\ m.end = Len(cell) THEN m.group ELSE cell

\* the ContentKey a ledger row stands for: lowercase(name -- artists -- album)
\* of the texts its cells display
RowKey(row) ==
    LET artists == Split(row.artists, ARTIST_SEPARATOR)
    IN  Lower(PlainLineFromNames(Displayed(row.title),
                                 [i \in 1..Len(artists) |-> Displayed(artists[i])],
                                 Displayed(row.album)))

\* the rows of a call's output that stand for ContentKey k
RowsFor(call, k) ==
    IF call.raised THEN {}
    ELSE {call.rows[key] : key \in {x \in DOMAIN call.rows : RowKey(call.rows[x]) = k}}

\* calls i..j took place on successive later days
LaterDays(i, j) ==
    \A n \in i..(j - 1) : StrLess(calls[n].today, calls[n + 1].today)

(***************************************************************************)
(* Claims                                                                  *)
(***************************************************************************)
\* C1: three successive runs on a fresh ledger, on days 1 < 2 < 3, each fed
\* the previous output: a track T in the playlist on day 1 has a row with
\* added = day 1 and removed empty; absent on day 2, its row persists with
\* added = day 1 and removed = day 2; back on day 3, its row has added = day 1
\* and removed empty.
C1_RemovalReappearance ==
    \A i \in 1..(Len(calls) - 2) : \A t \in Tracks :
        LET k == KeyOfTrack(t)
            c1 == calls[i]
            c2 == calls[i + 1]
            c3 == calls[i + 2]
        IN  ( /\ c1.prev_content.none
              /\ LaterDays(i, i + 2)
              /\ k \in KeysOf(c1.tracks)
              /\ k \notin KeysOf(c2.tracks)
              /\ k \in KeysOf(c3.tracks) )
            => /\ RowsFor(c1, k) # {}
               /\ \A r \in RowsFor(c1, k) : r.added = c1.today /\ r.removed = <<>>
               /\ RowsFor(c2, k) # {}
               /\ \A r \in RowsFor(c2, k) : r.added = c1.today /\ r.removed = c2.today
               /\ RowsFor(c3, k) # {}
               /\ \A r \in RowsFor(c3, k) : r.added = c1.today /\ r.removed = <<>>

\* C2: ledger monotonicity: when a track is in the playlist of every run from
\* run i to run j, each run fed the previous output, the Added value of its
\* row after run j is the one it had after run i.
C2_AddedNeverReplaced ==
    \A i \in 1..Len(calls) : \A j \in (i + 1)..Len(calls) : \A t \in Tracks :
        LET k == KeyOfTrack(t)
        IN  ( /\ \A n \in i..j : ~calls[n].raised /\ k \in KeysOf(calls[n].tracks) )
            => calls[j].rows[k].added = calls[i].rows[k].added

\* C3: a track absent from run i + 1 on has Removed set to the date of run
\* i + 1, and every later run leaves it at that date.
C3_RemovedStampedOnce ==
    \A i \in 1..Len(calls) : \A j \in (i + 1)..Len(calls) : \A t \in Tracks :
        LET k == KeyOfTrack(t)
        IN  ( /\ ~calls[i].raised
              /\ k \in KeysOf(calls[i].tracks)
              /\ LaterDays(i, j)
              /\ \A n \in (i + 1)..j : k \notin KeysOf(calls[n].tracks) )
            => /\ RowsFor(calls[j], k) # {}
               /\ \A r \in RowsFor(calls[j], k) : r.removed = calls[i + 1].today

\* C4: round-trip stability: the output of a first run (no previous
\* content), fed back with the same date and the same playlist, is returned
\* unchanged.
C4_RoundTrip ==
    \A i \in 1..(Len(calls) - 1) :
        ( /\ calls[i].prev_content.none
          /\ ~calls[i].raised
          /\ calls[i + 1].today = calls[i].today
          /\ calls[i + 1].tracks = calls[i].tracks )
        => /\ ~calls[i + 1].raised
           /\ calls[i + 1].text = calls[i].text

\* the data lines of a previous content: the lines after its first divider
DataLines(prev_content) ==
    LET lines == SplitLines(prev_content.text)
        index == Index(lines, DividerLine(6))
    IN  IF prev_content.none \/ index = 0 THEN <<>>
        ELSE SubSeq(lines, index + 1, Len(lines))

\* the number of " | " separated fields of a data line
FieldCount(line) == Len(Split(Slice2(line), <<" ", "|", " ">>))

\* C5: whatever the previous content, Formatter.cumulative returns a ledger;
\* only the lines of six fields can contribute a row.
C5_NeverRaisesOnPrevContent ==
    \A i \in 1..Len(calls) :
        /\ ~calls[i].raised
        /\ LET lines == DataLines(calls[i].prev_content)
               six == {n \in 1..Len(lines) : FieldCount(lines[n]) = 6}
           IN  Cardinality(DOMAIN calls[i].rows \ KeysOf(calls[i].tracks))
                   <= Cardinality(six)

\* no line of the content is the divider line
NoDividerLine(prev_content) ==
    \/ prev_content.none
    \/ \A n \in 1..Len(SplitLines(prev_content.text)) :
           SplitLines(prev_content.text)[n] # DividerLine(6)

\* C6: with the previous content absent, empty or without a divider line the
\* call is a first run: it returns what it returns for prev_content = None,
\* one row per distinct ContentKey of the playlist, each with added = today
\* and removed empty.
C6_NoDividerIsFirstRun ==
    \A i \in 1..Len(calls) :
        NoDividerLine(calls[i].prev_content)
        => LET c == calls[i]
               first == Cumulative(c.today, NoContent, PlaylistId, Playlist(c.tracks))
           IN  /\ ~c.raised
               /\ c.text = first.text
               /\ DOMAIN c.rows = KeysOf(c.tracks)
               /\ Len(SplitLines(c.text))
                      = Len(CumulativeHead) + Cardinality(KeysOf(c.tracks))
               /\ \A k \in DOMAIN c.rows :
                      c.rows[k].added = c.today /\ c.rows[k].removed = <<>>

\* C6 witness: a run on a text that has lines but no divider line, with a
\* playlist of two tracks of one ContentKey
C6_Witness ==
    \E i \in 1..Len(calls) :
        /\ ~calls[i].prev_content.none
        /\ Len(SplitLines(calls[i].prev_content.text)) > Len(PrettyHead)
        /\ NoDividerLine(calls[i].prev_content)
        /\ calls[i].tracks = <<TrackA, TrackUpperA>>
        /\ ~calls[i].raised

\* the last request of the current call of get_playlist
LastRequest == log[Len(log)]

\* C7: a 429 response with a hint of N seconds, N + 1 below the retry budget
\* of 30, does not fail the fetch: the same request is issued again.
C7_RetryAfter429 ==
    \A n \in 1..Len(log) :
        LET r == log[n].response
        IN  (r.error = 429 /\ r.retry_after + 1 < 30)
            => /\ raised = "none"
               /\ pc # "aborted"
               /\ n < Len(log) => /\ log[n + 1].kind = log[n].kind
                                  /\ log[n + 1].page = log[n].page

\* C8: a 429 response whose wait of N + 1 seconds would take the retry
\* budget of 30 to zero or below fails the client with RetryBudgetExceeded.
C8_RetryBudgetExceeded ==
    \A n \in 1..Len(log) :
        LET r == log[n].response
        IN  (r.error = 429 /\ 30 - (r.retry_after + 1) <= 0)
            => raised = "RetryBudgetExceeded"

\* C9 as stated: an error envelope in any response of get_playlist (the
\* playlist or a tracks page) fails the fetch with the exception of its
\* status: 401 InvalidAccessToken, 403 PrivatePlaylist, 404 InvalidPlaylist,
\* any other the generic failure; no Playlist is returned.
C9_ErrorKindByStatus ==
    (log # <<>> /\ LastRequest.response.error # 0)
    => /\ pc \notin {"tracks", "returned"}
       /\ LET status == LastRequest.response.error
          IN  raised = CASE status = 401 -> "InvalidAccessTokenError"
                         [] status = 403 -> "PrivatePlaylistError"
                         [] status = 404 -> "InvalidPlaylistError"
                         [] OTHER -> "Exception"

\* C9 amended: an error envelope in the playlist response fails the fetch
\* with the exception of its status (401, 403, 404, other); an error envelope
\* in a tracks page fails it with the generic exception whatever the status;
\* no Playlist is returned, and only the last response of a call can hold an
\* error envelope.
C9_ErrorKindByRequest ==
    /\ \A n \in 1..(Len(log) - 1) : log[n].response.error = 0
    /\ (log # <<>> /\ LastRequest.response.error # 0)
       => /\ pc \notin {"tracks", "returned"}
          /\ tracks = <<>>
          /\ LET status == LastRequest.response.error
             IN  IF LastRequest.kind = "playlist"
                 THEN raised = CASE status = 401 -> "InvalidAccessTokenError"
                                 [] status = 403 -> "PrivatePlaylistError"
                                 [] status = 404 -> "InvalidPlaylistError"
                                 [] OTHER -> "Exception"
                 ELSE raised = "Exception"

\* C9 witness: the second tracks page answers 404 and the call fails with the
\* generic exception
C9_Witness ==
    /\ Len(log) = 3
    /\ LastRequest.kind = "tracks"
    /\ LastRequest.response.error = 404
    /\ raised = "Exception"
    /\ pc = "aborted"

\* the ids of the non-null tracks of the items of a page, in order
RECURSIVE ItemIds(_)
ItemIds(items) ==
    IF items = <<>> THEN <<>>
    ELSE (IF Head(items).null THEN <<>> ELSE <<Head(items).track.id>>)
         \o ItemIds(Tail(items))

\* the ids of the non-null tracks of the pages of log[2..n], in order
RECURSIVE FetchedIds(_)
FetchedIds(n) ==
    IF n < 2 THEN <<>> ELSE FetchedIds(n - 1) \o ItemIds(log[n].response.items)

\* the Track of the model with the given id
TrackById(id) == CHOOSE t \in Tracks : t.id = id

\* no response names a page that was requested before
ChainAcyclic ==
    \A n \in 2..Len(log) : \A m \in 2..n : log[n].response.next # log[m].page

\* C10: while no response holds an error, _get_tracks requests page 1 and
\* then exactly the page each response names in "next", and stops at the
\* first response whose "next" is null; the tracks so far are the non-null
\* tracks of the pages in page order and in-page order; when no response
\* names a page requested before, no page is requested twice and at most
\* MaxPages pages are requested.
C10_Pagination ==
    pc \in {"tracks", "returned"}
    => /\ log[1].kind = "playlist"
       /\ \A n \in 2..Len(log) :
             /\ log[n].kind = "tracks"
             /\ log[n].page = IF n = 2 THEN 1 ELSE log[n - 1].response.next
             /\ n < Len(log) => log[n].response.next # 0
       /\ pc = "tracks" => /\ tracks_href # 0
                           /\ tracks_href = IF Len(log) = 1 THEN 1
                                            ELSE LastRequest.response.next
       /\ pc = "returned" => Len(log) >= 2 /\ LastRequest.response.next = 0
       /\ Len(tracks) = Len(FetchedIds(Len(log)))
       /\ \A i \in 1..Len(tracks) : tracks[i] = TrackById(FetchedIds(Len(log))[i])
       /\ ChainAcyclic
          => /\ \A n, m \in 2..Len(log) : n # m => log[n].page # log[m].page
             /\ Cardinality(PageRequests) <= MaxPages

\* C10 witness: get_playlist has returned after two pages, the first with a
\* null track between two tracks
C10_Witness ==
    /\ pc = "returned"
    /\ Len(log) = 3
    /\ log[2].response.items = <<ItemA, NullItem, ItemB>>
    /\ log[3].response.items = <<ItemB, ItemA>>
    /\ Len(tracks) = 4

\* the step in which get_playlist raised on the playlist request
PlaylistFetchFailed == pc = "loop" /\ todo # <<>> /\ pc' # "tracks"

\* C11: when get_playlist fails with PrivatePlaylistError or
\* InvalidPlaylistError the plain file of that playlist is removed, nothing
\* is written to playlists/pretty or playlists/cumulative, and the loop goes
\* on, so that at the end of the loop every tracked id has been processed and
\* every playlist that was fetched has its three files; when a fetch fails
\* with any other exception the run aborts: no file and no list changes in
\* that step, and no step follows it.
C11_DropOrAbort ==
    /\ [][PlaylistFetchFailed =>
            IF raised' \in {"PrivatePlaylistError", "InvalidPlaylistError"}
            THEN /\ Head(todo) \notin DOMAIN plain_dir'
                 /\ pretty_dir' = pretty_dir
                 /\ cumulative_dir' = cumulative_dir
                 /\ todo' = Tail(todo)
                 /\ pc' = "loop"
            ELSE /\ pc' = "aborted"
                 /\ UNCHANGED <<todo, outcomes, dirVars>>]_vars
    /\ [][pc' = "aborted" => UNCHANGED <<todo, outcomes, dirVars>>]_vars
    /\ [][pc = "aborted" => UNCHANGED vars]_vars
    /\ [](pc \in {"finished", "inconsistent"} =>
            /\ {outcomes[i].id : i \in 1..Len(outcomes)} = 1..MaxPlaylists
            /\ \A i \in 1..Len(outcomes) :
                  IF outcomes[i].kept
                  THEN /\ outcomes[i].id \in DOMAIN plain_dir
                       /\ MdFile(outcomes[i].name) \in pretty_dir \cap cumulative_dir
                  ELSE outcomes[i].id \notin DOMAIN plain_dir)

\* the first playlist was dropped, the second one fetched and written
C11_Witness ==
    /\ pc \in {"finished", "inconsistent"}
    /\ Len(outcomes) = 2
    /\ ~outcomes[1].kept
    /\ outcomes[2].kept
    /\ DOMAIN plain_dir = {2}

\* C12: a run whose plain directory and pretty directory hold different
\* numbers of files at the sanity check does not return normally.
C12_CountMismatchFails ==
    pc = "finished" => Cardinality(DOMAIN plain_dir) = Cardinality(pretty_dir)

\* C13: Formatter.plain returns the same text for every order in which the
\* tracks of a playlist are given: all the texts returned for one playlist,
\* however it was reordered between the calls, are one text.
C13_PlainFixedPoint == Cardinality(plain_texts) <= 1

\* hours, minutes and seconds of a whole number of seconds below a day: the
\* first field that is not zero without padding, the fields after it with
\* two digits
Rendering(seconds) ==
    LET h == seconds \div 3600
        m == (seconds % 3600) \div 60
        sec == seconds % 60
    IN  IF h > 0 THEN NatStr(h) \o <<":">> \o TwoDigits(m) \o <<":">> \o TwoDigits(sec)
        ELSE IF m > 0 THEN NatStr(m) \o <<":">> \o TwoDigits(sec)
        ELSE NatStr(sec)

\* C14: for a duration of at least one second and less than a day
\* _format_duration returns H:MM:SS without its leading zero fields: the
\* first field that is not zero and everything after it.
C14_FormatDuration ==
    (length.done /\ duration_ms \div 1000 \in 1..86399) =>
        /\ length.ok
        /\ length.val = Rendering(duration_ms \div 1000)
        /\ (duration_ms = 3661000 => length.val = <<"1", ":", "0", "1", ":", "0", "1">>)
        /\ (duration_ms = 61000 => length.val = <<"1", ":", "0", "1">>)
        /\ (duration_ms = 59000 => length.val = <<"5", "9">>)

\* 3,661,000 ms has been formatted
C14_Witness ==
    /\ length.done
    /\ duration_ms = 3661000
    /\ length.val = <<"1", ":", "0", "1", ":", "0", "1">>

\* the rows of a call's output in the order in which they are emitted
EmittedRows(call) ==
    LET keys == SortKeys(DOMAIN call.rows)
    IN  [n \in 1..Len(keys) |-> call.rows[keys[n]]]

\* C15: in a sequence of runs each fed the previous output, every ContentKey
\* of the playlist of a run has a row in the output of that run and of every
\* later run, and the rows of every output are in the order of their
\* ContentKeys.
C15_EveryTrackEverSeen ==
    \A i \in 1..Len(calls) : \A j \in i..Len(calls) :
        /\ \A k \in KeysOf(calls[i].tracks) : RowsFor(calls[j], k) # {}
        /\ LET emitted == EmittedRows(calls[j])
           IN  \A n \in 1..(Len(emitted) - 1) :
                   ~StrLess(RowKey(emitted[n + 1]), RowKey(emitted[n]))

\* C16: in the output of every run, a row has an empty Removed exactly when
\* its ContentKey is the ContentKey of a track of the playlist of that run,
\* and every row has an Added date.
C16_RemovedIffAbsent ==
    \A n \in 1..Len(calls) :
        ~calls[n].raised =>
            \A key \in DOMAIN calls[n].rows :
                LET row == calls[n].rows[key]
                IN  /\ (row.removed = <<>>) <=> (RowKey(row) \in KeysOf(calls[n].tracks))
                    /\ row.added # <<>>

\* the git steps of push_updates in their order
GitOrder ==
    <<"status", "config_name", "config_email", "add", "commit", "rebase",
      "remote_rm", "remote_add", "push">>

\* C17: the git steps run in the fixed order; a step other than "git status"
\* that exits with a non-zero return code is the last step that runs, so
\* "git push" runs only after every step before it exited with 0.
C17_PushOnlyAfterSuccess ==
    /\ \A n \in 1..Len(git_log) : git_log[n].step = GitOrder[n]
    /\ \A n \in 2..(Len(git_log) - 1) : git_log[n].returncode = 0

====
